---- MODULE Spec2Model ----
(***************************************************************************)
(* Model of the mesh geometry / topology core of dugong                    *)
(* (crates/mesh/src/geometry.rs) and of the vector primitives it uses      *)
(* (crates/types/src/tensor).                                              *)
(*                                                                         *)
(* Every derivation of geometry.rs is a pure function.  Each one is an     *)
(* operator below, computed loop by loop as the code computes it, and each *)
(* has a Call... action that applies it to the inputs held in the state.   *)
(* Rust indices are 0-based: the model keeps the 0-based values (face,     *)
(* cell and point indices) and reads slot i of a slice s as s[i + 1].      *)
(* A slice access outside the slice panics; a computation that panicked    *)
(* is the value Panic.  The mixed-rank tensor operations of                *)
(* crates/types/src/tensor/cross_ops.rs have a specification of their own. *)
(***************************************************************************)
EXTENDS Integers, Sequences, FiniteSets, TLC

VARIABLES
    points,            \* &[Vector]        point coordinates
    faces,             \* &[Vec<usize>]    point indices of every face
    owner,             \* &[usize]         owner cell of every face
    neighbor,          \* &[usize]         neighbor cell of the internal faces
    n_internal_faces,  \* usize
    n_cells,           \* usize
    face,              \* &[usize]         the face handed to compute_face_geometry
    cell_faces,        \* result of compute_cell_faces
    cell_cells,        \* result of compute_cell_cells
    cell_points,       \* result of compute_cell_points
    cell_geom,         \* result of compute_cell_geometry
    face_geom,         \* result of compute_face_geometry
    symm,              \* SymmTensor       operand of the mixed-rank operations
    sph,               \* SphericalTensor  operand of the mixed-rank operations
    tensor_out         \* result of the last mixed-rank operation

inputs == <<points, faces, owner, neighbor, n_internal_faces, n_cells, face, symm, sph>>
outputs == <<cell_faces, cell_cells, cell_points, cell_geom, face_geom, tensor_out>>
vars == <<points, faces, owner, neighbor, n_internal_faces, n_cells, face, symm, sph,
          cell_faces, cell_cells, cell_points, cell_geom, face_geom, tensor_out>>

(***************************************************************************)
(* Bounds of the model.                                                    *)
(***************************************************************************)
MaxCells == 2
MaxFaces == 3

(***************************************************************************)
(* Results of a call.                                                      *)
(***************************************************************************)
NotCalled == [st |-> "none", val |-> <<>>]
Ok(v) == [st |-> "ok", val |-> v]
Panic == [st |-> "panic", val |-> <<>>]

\* the elements of a slice
Range(s) == {s[i] : i \in 1..Len(s)}

\* vec![Vec::new(); n]
EmptyLists(n) == [i \in 1..n |-> <<>>]

\* result[c].push(x): indexing a Vec outside its length panics
PushAt(r, c, x) ==
    IF r.st # "ok" THEN r
    ELSE IF c < Len(r.val) THEN Ok([r.val EXCEPT ![c + 1] = Append(@, x)])
    ELSE Panic

(***************************************************************************)
(* compute_cell_faces                                                      *)
(***************************************************************************)
\* for (fi, &o) in owner.iter().enumerate() { result[o].push(fi); }
RECURSIVE CellFacesOwnerLoop(_, _, _)
CellFacesOwnerLoop(r, own, fi) ==
    IF r.st # "ok" \/ fi >= Len(own) THEN r
    ELSE CellFacesOwnerLoop(PushAt(r, own[fi + 1], fi), own, fi + 1)

\* for fi in 0..n_internal_faces { result[neighbor[fi]].push(fi); }
RECURSIVE CellFacesNeighborLoop(_, _, _, _)
CellFacesNeighborLoop(r, nbr, nif, fi) ==
    IF r.st # "ok" \/ fi >= nif THEN r
    ELSE IF fi >= Len(nbr) THEN Panic
    ELSE CellFacesNeighborLoop(PushAt(r, nbr[fi + 1], fi), nbr, nif, fi + 1)

\* a plausible slip: the neighbor contributions are appended before the owner ones
compute_cell_faces_neighbor_first(own, nbr, nif, nc) ==
    CellFacesOwnerLoop(CellFacesNeighborLoop(Ok(EmptyLists(nc)), nbr, nif, 0), own, 0)

\* a plausible slip: boundary faces are skipped in the owner pass
compute_cell_faces_internal_only(own, nbr, nif, nc) ==
    CellFacesNeighborLoop(
        CellFacesOwnerLoop(Ok(EmptyLists(nc)), SubSeq(own, 1, nif), 0), nbr, nif, 0)

compute_cell_faces(own, nbr, nif, nc) ==
    CellFacesNeighborLoop(CellFacesOwnerLoop(Ok(EmptyLists(nc)), own, 0), nbr, nif, 0)

(***************************************************************************)
(* compute_cell_cells                                                      *)
(***************************************************************************)
\* for fi in 0..n_internal_faces { result[o].push(n); result[n].push(o); }
RECURSIVE CellCellsLoop(_, _, _, _, _)
CellCellsLoop(r, own, nbr, nif, fi) ==
    IF r.st # "ok" \/ fi >= nif THEN r
    ELSE IF fi >= Len(own) \/ fi >= Len(nbr) THEN Panic
    ELSE LET o == own[fi + 1]
             n == nbr[fi + 1]
         IN CellCellsLoop(PushAt(PushAt(r, o, n), n, o), own, nbr, nif, fi + 1)

\* a plausible slip: only the owner -> neighbor direction is recorded
RECURSIVE CellCellsOneWayLoop(_, _, _, _, _)
CellCellsOneWayLoop(r, own, nbr, nif, fi) ==
    IF r.st # "ok" \/ fi >= nif THEN r
    ELSE IF fi >= Len(own) \/ fi >= Len(nbr) THEN Panic
    ELSE CellCellsOneWayLoop(PushAt(r, own[fi + 1], nbr[fi + 1]), own, nbr, nif, fi + 1)

compute_cell_cells_one_way(cf, own, nbr, nif, nc) ==
    CellCellsOneWayLoop(Ok(EmptyLists(nc)), own, nbr, nif, 0)

\* a plausible slip: the loop runs over every face, boundary faces included
compute_cell_cells_all_faces(cf, own, nbr, nif, nc) ==
    CellCellsLoop(Ok(EmptyLists(nc)), own, nbr, Len(nbr), 0)

\* a plausible slip: the adjacency is read off the cell_faces argument (for
\* every internal face in a cell's list, the cell on its other side)
compute_cell_cells_from_lists(cf, own, nbr, nif, nc) ==
    IF Len(cf) # nc THEN Ok(EmptyLists(nc))
    ELSE Ok([c \in 1..nc |->
                LET internal == SelectSeq(cf[c], LAMBDA f : f < nif)
                IN [k \in 1..Len(internal) |->
                       IF own[internal[k] + 1] = c - 1 THEN nbr[internal[k] + 1]
                       ELSE own[internal[k] + 1]]])

\* the cell_faces argument is not read ("signature kept per design")
compute_cell_cells(cf, own, nbr, nif, nc) ==
    CellCellsLoop(Ok(EmptyLists(nc)), own, nbr, nif, 0)

(***************************************************************************)
(* Inputs: the arrays a validated mesh delivers (spec section 3, and the   *)
(* "# Panics" preconditions of geometry.rs).                               *)
(***************************************************************************)
Cells(nc) == 0..(nc - 1)

SeqsOfLen(S, n) == [1..n -> S]

\* neighbor has at least n_internal_faces entries; only the first
\* n_internal_faces are constrained to be cell indices
NeighborArrays(nif, nc, maxLen) ==
    UNION { { pre \o tail : pre \in SeqsOfLen(Cells(nc), nif),
                            tail \in SeqsOfLen(0..nc, len - nif) }
            : len \in nif..maxLen }

(***************************************************************************)
(* Calls                                                                   *)
(***************************************************************************)
CallComputeCellFaces ==
    /\ cell_faces' = compute_cell_faces(owner, neighbor, n_internal_faces, n_cells)
    /\ UNCHANGED <<inputs, cell_cells, cell_points, cell_geom, face_geom, tensor_out>>

\* the callers pass the CellFaces lists (or, as the tests do, lists of their own)
CallComputeCellCells ==
    /\ \E cf \in {cell_faces.val, EmptyLists(n_cells)} :
          cell_cells' = compute_cell_cells(cf, owner, neighbor, n_internal_faces, n_cells)
    /\ UNCHANGED <<inputs, cell_faces, cell_points, cell_geom, face_geom, tensor_out>>

(***************************************************************************)
(* f64 arithmetic.  A number is an exact fraction <<numerator,             *)
(* denominator>> in lowest terms with a positive denominator: rounding is  *)
(* not modelled, every other step of the arithmetic is.  A quotient by     *)
(* zero is not a number (IEEE inf / NaN); it is the value NaN and          *)
(* propagates through the operations.                                      *)
(***************************************************************************)
Abs(n) == IF n < 0 THEN -n ELSE n

RECURSIVE GCD(_, _)
GCD(a, b) == IF b = 0 THEN a ELSE GCD(b, a % b)

NaN == <<0, 0>>
IsNaN(q) == q[2] = 0

\* the fraction n / d in lowest terms
Frac(n, d) ==
    IF d = 0 THEN NaN
    ELSE LET g == GCD(Abs(n), Abs(d))
             sgn == IF d < 0 THEN -1 ELSE 1
         IN <<(sgn * n) \div g, (sgn * d) \div g>>

Num(n) == <<n, 1>>
Zero == Num(0)

RAdd(a, b) == IF IsNaN(a) \/ IsNaN(b) THEN NaN
              ELSE Frac(a[1] * b[2] + b[1] * a[2], a[2] * b[2])
RNeg(a) == IF IsNaN(a) THEN NaN ELSE <<-a[1], a[2]>>
RSub(a, b) == RAdd(a, RNeg(b))
RMul(a, b) == IF IsNaN(a) \/ IsNaN(b) THEN NaN
              ELSE Frac(a[1] * b[1], a[2] * b[2])
RDiv(a, b) == IF IsNaN(a) \/ IsNaN(b) THEN NaN
              ELSE Frac(a[1] * b[2], a[2] * b[1])
\* f64::abs
RAbs(a) == <<Abs(a[1]), a[2]>>

\* x > 1e-30.  Every fraction of the model has a denominator far below
\* 10^30, so a number exceeds 1e-30 exactly when it is positive; a
\* comparison with NaN is false.
GtEps(a) == ~IsNaN(a) /\ a[1] > 0

\* largest r with r * r <= n, by bisection on lo <= r < hi
RECURSIVE ISqrtIn(_, _, _)
ISqrtIn(n, lo, hi) ==
    IF hi - lo <= 1 THEN lo
    ELSE LET mid == (lo + hi) \div 2
         IN IF mid * mid <= n THEN ISqrtIn(n, mid, hi) ELSE ISqrtIn(n, lo, mid)

ISqrt(n) == ISqrtIn(n, 0, n + 1)

IsSquare(n) == ISqrt(n) * ISqrt(n) = n

\* f64::sqrt, exact on the squares of fractions (the only arguments the
\* faces of the model produce, see ExactMagnitudes)
RSqrt(a) == IF IsNaN(a) \/ a[1] < 0 THEN NaN ELSE Frac(ISqrt(a[1]), ISqrt(a[2]))

(***************************************************************************)
(* Vector (crates/types): <<x, y, z>>                                      *)
(***************************************************************************)
Vec(x, y, z) == <<Num(x), Num(y), Num(z)>>

\* Vector::zero()
VZero == <<Zero, Zero, Zero>>

\* impl Add for Vector
VAdd(a, b) == <<RAdd(a[1], b[1]), RAdd(a[2], b[2]), RAdd(a[3], b[3])>>
\* impl Sub for Vector
VSub(a, b) == <<RSub(a[1], b[1]), RSub(a[2], b[2]), RSub(a[3], b[3])>>
\* impl Neg for Vector
VNeg(a) == <<RNeg(a[1]), RNeg(a[2]), RNeg(a[3])>>
\* impl Mul<f64> for Vector
VScale(a, s) == <<RMul(a[1], s), RMul(a[2], s), RMul(a[3], s)>>
\* impl Div<f64> for Vector
VDiv(a, s) == <<RDiv(a[1], s), RDiv(a[2], s), RDiv(a[3], s)>>
\* impl Mul<Vector> for Vector: the inner product
VDot(a, b) == RAdd(RAdd(RMul(a[1], b[1]), RMul(a[2], b[2])), RMul(a[3], b[3]))
\* Vector::cross
VCross(a, b) ==
    <<RSub(RMul(a[2], b[3]), RMul(a[3], b[2])),
      RSub(RMul(a[3], b[1]), RMul(a[1], b[3])),
      RSub(RMul(a[1], b[2]), RMul(a[2], b[1]))>>
\* FieldValue::mag for Vector
VMag(a) == RSqrt(VDot(a, a))

\* the magnitude VMag returns is the exact one
MagIsExact(a) == LET q == VDot(a, a) IN IsSquare(q[1]) /\ IsSquare(q[2])

(***************************************************************************)
(* SymmTensor and SphericalTensor (crates/types): a SymmTensor is the      *)
(* tuple <<xx, xy, xz, yy, yz, zz>> of the arguments of SymmTensor::new, a *)
(* SphericalTensor is its value.                                           *)
(***************************************************************************)
\* SymmTensor::new
SymmNew(c_xx, c_xy, c_xz, c_yy, c_yz, c_zz) == <<c_xx, c_xy, c_xz, c_yy, c_yz, c_zz>>

\* the accessors of SymmTensor
xx(t) == t[1]
xy(t) == t[2]
xz(t) == t[3]
yy(t) == t[4]
yz(t) == t[5]
zz(t) == t[6]

\* impl Neg for SymmTensor
SymmNeg(t) == SymmNew(RNeg(t[1]), RNeg(t[2]), RNeg(t[3]), RNeg(t[4]), RNeg(t[5]), RNeg(t[6]))

\* impl Add<SphericalTensor> for SymmTensor
SymmAddSph(t, s) ==
    SymmNew(RAdd(xx(t), s), xy(t), xz(t), RAdd(yy(t), s), yz(t), RAdd(zz(t), s))

\* impl Add<SymmTensor> for SphericalTensor: rhs + self
SphAddSymm(s, t) == SymmAddSph(t, s)

\* impl Sub<SphericalTensor> for SymmTensor
SymmSubSph(t, s) ==
    SymmNew(RSub(xx(t), s), xy(t), xz(t), RSub(yy(t), s), yz(t), RSub(zz(t), s))

\* a plausible slip: the off-diagonal components are copied, not negated
SphSubSymm_offdiag_kept(s, t) ==
    SymmNew(RSub(s, xx(t)), xy(t), xz(t), RSub(s, yy(t)), yz(t), RSub(s, zz(t)))

\* impl Sub<SymmTensor> for SphericalTensor
SphSubSymm(s, t) ==
    SymmNew(RSub(s, xx(t)), RNeg(xy(t)), RNeg(xz(t)),
            RSub(s, yy(t)), RNeg(yz(t)), RSub(s, zz(t)))

\* the operands of a specification without tensors
NoTensorOperands ==
    /\ symm = SymmNew(Zero, Zero, Zero, Zero, Zero, Zero)
    /\ sph = Zero
    /\ tensor_out = NotCalled

\* the result of an operation, with the name of the operation
TensorResult(op, t) == Ok([op |-> op, val |-> t])

CallSymmAddSph ==
    /\ tensor_out' = TensorResult("SymmTensor + SphericalTensor", SymmAddSph(symm, sph))
    /\ UNCHANGED <<inputs, cell_faces, cell_cells, cell_points, cell_geom, face_geom>>

CallSphAddSymm ==
    /\ tensor_out' = TensorResult("SphericalTensor + SymmTensor", SphAddSymm(sph, symm))
    /\ UNCHANGED <<inputs, cell_faces, cell_cells, cell_points, cell_geom, face_geom>>

CallSymmSubSph ==
    /\ tensor_out' = TensorResult("SymmTensor - SphericalTensor", SymmSubSph(symm, sph))
    /\ UNCHANGED <<inputs, cell_faces, cell_cells, cell_points, cell_geom, face_geom>>

CallSphSubSymm ==
    /\ tensor_out' = TensorResult("SphericalTensor - SymmTensor", SphSubSymm(sph, symm))
    /\ UNCHANGED <<inputs, cell_faces, cell_cells, cell_points, cell_geom, face_geom>>

(***************************************************************************)
(* Tensor specification: the four mixed-rank operations on every           *)
(* SymmTensor and SphericalTensor with small integer components.           *)
(***************************************************************************)
MaxComponent == 1

TensorComponents == {Num(n) : n \in (-1)..MaxComponent}

InitTensor ==
    /\ symm \in {SymmNew(a, b, c, d, e, f) : a, b, c, d, e, f \in TensorComponents}
    /\ sph \in TensorComponents
    /\ tensor_out = NotCalled
    /\ points = <<>>
    /\ faces = <<>>
    /\ owner = <<>>
    /\ neighbor = <<>>
    /\ n_internal_faces = 0
    /\ n_cells = 0
    /\ face = <<>>
    /\ cell_faces = NotCalled
    /\ cell_cells = NotCalled
    /\ cell_points = NotCalled
    /\ cell_geom = NotCalled
    /\ face_geom = NotCalled

NextTensor ==
    \/ CallSymmAddSph
    \/ CallSphAddSymm
    \/ CallSymmSubSph
    \/ CallSphSubSymm

SpecTensor == InitTensor /\ [][NextTensor]_vars

(***************************************************************************)
(* compute_face_geometry                                                   *)
(***************************************************************************)
\* points[idx]: a [st, val] result, Panic when idx is outside the slice
PointAt(pts, idx) == IF idx < Len(pts) THEN Ok(pts[idx + 1]) ELSE Panic

\* for &idx in face { p_ref += points[idx]; }
RECURSIVE FaceRefLoop(_, _, _, _)
FaceRefLoop(acc, pts, fc, k) ==
    IF acc.st # "ok" \/ k > Len(fc) THEN acc
    ELSE LET p == PointAt(pts, fc[k])
         IN IF p.st # "ok" THEN Panic
            ELSE FaceRefLoop(Ok(VAdd(acc.val, p.val)), pts, fc, k + 1)

\* a plausible slip: the factor 0.5 of the triangle area is left out
FanTriangle_no_half(pts, fc, p_ref, i) ==
    LET n == Len(fc)
        v_cur == pts[fc[i + 1] + 1]
        v_next == pts[fc[((i + 1) % n) + 1] + 1]
        tri_area_vec == VCross(VSub(v_cur, p_ref), VSub(v_next, p_ref))
    IN [area_vec |-> tri_area_vec,
        area |-> VMag(tri_area_vec),
        center |-> VDiv(VAdd(VAdd(v_cur, v_next), p_ref), Num(3))]

\* a plausible slip: the operands of the cross product are exchanged
FanTriangle_swapped(pts, fc, p_ref, i) ==
    LET n == Len(fc)
        v_cur == pts[fc[i + 1] + 1]
        v_next == pts[fc[((i + 1) % n) + 1] + 1]
        tri_area_vec == VScale(VCross(VSub(v_next, p_ref), VSub(v_cur, p_ref)), <<1, 2>>)
    IN [area_vec |-> tri_area_vec,
        area |-> VMag(tri_area_vec),
        center |-> VDiv(VAdd(VAdd(v_cur, v_next), p_ref), Num(3))]

\* the fan triangle of vertex i: its area vector, area and centroid
FanTriangle(pts, fc, p_ref, i) ==
    LET n == Len(fc)
        v_cur == pts[fc[i + 1] + 1]
        v_next == pts[fc[((i + 1) % n) + 1] + 1]
        tri_area_vec == VScale(VCross(VSub(v_cur, p_ref), VSub(v_next, p_ref)), <<1, 2>>)
    IN [area_vec |-> tri_area_vec,
        area |-> VMag(tri_area_vec),
        center |-> VDiv(VAdd(VAdd(v_cur, v_next), p_ref), Num(3))]

\* for i in 0..n { total_area_vec += tri_area_vec; weighted_center += tri_center * tri_area; }
RECURSIVE FaceFanLoop(_, _, _, _, _)
FaceFanLoop(acc, pts, fc, p_ref, i) ==
    IF i >= Len(fc) THEN acc
    ELSE LET t == FanTriangle(pts, fc, p_ref, i)
         IN FaceFanLoop([total_area_vec |-> VAdd(acc.total_area_vec, t.area_vec),
                         weighted_center |-> VAdd(acc.weighted_center,
                                                  VScale(t.center, t.area))],
                        pts, fc, p_ref, i + 1)

\* a plausible slip: the division is done whatever the total area is
FaceResult_no_guard(p_ref, sums) ==
    [center |-> VDiv(sums.weighted_center, VMag(sums.total_area_vec)),
     area_vec |-> sums.total_area_vec]

\* (face_center, total_area_vec) from the reference point and the fan sums
FaceResult(p_ref, sums) ==
    LET total_area == VMag(sums.total_area_vec)
    IN [center |-> IF GtEps(total_area) THEN VDiv(sums.weighted_center, total_area)
                   ELSE p_ref,
        area_vec |-> sums.total_area_vec]

compute_face_geometry(pts, fc) ==
    LET sum == FaceRefLoop(Ok(VZero), pts, fc, 1)
    IN IF sum.st # "ok" THEN Panic
       ELSE LET p_ref == VDiv(sum.val, Num(Len(fc)))
                sums == FaceFanLoop([total_area_vec |-> VZero, weighted_center |-> VZero],
                                    pts, fc, p_ref, 0)
            IN Ok(FaceResult(p_ref, sums))

(***************************************************************************)
(* compute_cell_points                                                     *)
(***************************************************************************)
\* BTreeSet::into_iter().collect(): the elements in ascending order
RECURSIVE SortedSeq(_)
SortedSeq(S) ==
    IF S = {} THEN <<>>
    ELSE LET m == CHOOSE x \in S : \A y \in S : x <= y
         IN <<m>> \o SortedSeq(S \ {m})

\* for &fi in cell_face_indices { for &pi in &faces[fi] { pts.insert(pi); } }
RECURSIVE CellPointSetLoop(_, _, _, _)
CellPointSetLoop(acc, cfi, fcs, k) ==
    IF acc.st # "ok" \/ k > Len(cfi) THEN acc
    ELSE IF cfi[k] >= Len(fcs) THEN Panic
    ELSE CellPointSetLoop(Ok(acc.val \cup Range(fcs[cfi[k] + 1])), cfi, fcs, k + 1)

\* for cell_face_indices in cell_faces.iter().take(n_cells) { ...; result.push(..) }
RECURSIVE CellPointsLoop(_, _, _, _, _)
CellPointsLoop(r, cf, fcs, nc, k) ==
    IF r.st # "ok" \/ k > Len(cf) \/ k > nc THEN r
    ELSE LET pts == CellPointSetLoop(Ok({}), cf[k], fcs, 1)
         IN IF pts.st # "ok" THEN Panic
            ELSE CellPointsLoop(Ok(Append(r.val, SortedSeq(pts.val))), cf, fcs, nc, k + 1)

\* a plausible slip: the points are pushed to a Vec as they come (no BTreeSet)
RECURSIVE FacePointsConcat(_, _, _)
FacePointsConcat(cfi, fcs, k) ==
    IF k > Len(cfi) THEN <<>>
    ELSE fcs[cfi[k] + 1] \o FacePointsConcat(cfi, fcs, k + 1)

compute_cell_points_no_set(cf, fcs, nc) ==
    Ok([k \in 1..nc |-> FacePointsConcat(cf[k], fcs, 1)])

\* a plausible slip: cells without points are left out of the result
compute_cell_points_skip_empty(cf, fcs, nc) ==
    LET r == CellPointsLoop(Ok(<<>>), cf, fcs, nc, 1)
    IN IF r.st # "ok" THEN r ELSE Ok(SelectSeq(r.val, LAMBDA l : l # <<>>))

compute_cell_points(cf, fcs, nc) == CellPointsLoop(Ok(<<>>), cf, fcs, nc, 1)

(***************************************************************************)
(* compute_cell_geometry                                                   *)
(***************************************************************************)
\* faces.iter().map(|f| compute_face_geometry(points, f)).collect()
RECURSIVE FaceGeomLoop(_, _, _, _)
FaceGeomLoop(acc, pts, fcs, k) ==
    IF acc.st # "ok" \/ k > Len(fcs) THEN acc
    ELSE LET g == compute_face_geometry(pts, fcs[k])
         IN IF g.st # "ok" THEN Panic
            ELSE FaceGeomLoop(Ok(Append(acc.val, g.val)), pts, fcs, k + 1)

\* for (fi, &c) in cell_of.iter().enumerate() {
\*     c_ref[c] += face_geom[fi].0; cell_face_count[c] += 1; }
\* (lines 78-81 with cell_of = owner, lines 82-85 with cell_of = neighbor)
RECURSIVE CellRefLoop(_, _, _, _)
CellRefLoop(acc, cell_of, fg, fi) ==
    IF acc.st # "ok" \/ fi >= Len(cell_of) THEN acc
    ELSE LET c == cell_of[fi + 1]
         IN IF c >= Len(acc.val.c_ref) \/ fi >= Len(fg) THEN Panic
            ELSE CellRefLoop(
                    Ok([c_ref |-> [acc.val.c_ref EXCEPT
                                      ![c + 1] = VAdd(@, fg[fi + 1].center)],
                        cell_face_count |-> [acc.val.cell_face_count EXCEPT
                                                ![c + 1] = @ + 1]]),
                    cell_of, fg, fi + 1)

\* if cell_face_count[ci] > 0 { c_ref[ci] /= cell_face_count[ci] as f64; }
CellRefMean(sums) ==
    [ci \in 1..Len(sums.c_ref) |->
        IF sums.cell_face_count[ci] > 0
        THEN VDiv(sums.c_ref[ci], Num(sums.cell_face_count[ci]))
        ELSE sums.c_ref[ci]]

\* the mean, when both passes went through
CellRefResult(sums) == IF sums.st # "ok" THEN Panic ELSE Ok(CellRefMean(sums.val))

\* the cell reference points: owner pass, neighbor pass, mean
CellRefs(fg, own, nbr, nc) ==
    CellRefResult(
        CellRefLoop(
            CellRefLoop(Ok([c_ref |-> [ci \in 1..nc |-> VZero],
                            cell_face_count |-> [ci \in 1..nc |-> 0]]),
                        own, fg, 0),
            nbr, fg, 0))

\* a plausible slip: the factor 1/3 of the pyramid volume is left out
Pyramid_no_third(fc, fa, cref) ==
    [vol |-> VDot(fa, VSub(fc, cref)),
     center |-> VAdd(VScale(cref, <<3, 4>>), VScale(fc, <<1, 4>>))]

\* the pyramid of a face seen from cell c, with area vector fa (negated by
\* the caller for the neighbor side): its signed volume and its centroid
Pyramid(fc, fa, cref) ==
    [vol |-> RDiv(VDot(fa, VSub(fc, cref)), Num(3)),
     center |-> VAdd(VScale(cref, <<3, 4>>), VScale(fc, <<1, 4>>))]

\* cell_volumes[c] += pyr_vol; cell_centers_weighted[c] += pyr_center * pyr_vol;
AddPyramid(acc, c, pyr) ==
    [cell_volumes |-> [acc.cell_volumes EXCEPT ![c + 1] = RAdd(@, pyr.vol)],
     cell_centers_weighted |-> [acc.cell_centers_weighted EXCEPT
                                   ![c + 1] = VAdd(@, VScale(pyr.center, pyr.vol))],
     order |-> [acc.order EXCEPT ![c + 1] = Append(@, pyr.face)]]

\* for (fi, &o) in owner.iter().enumerate() { ... }   (owner faces, positive sense)
RECURSIVE OwnerPyramidLoop(_, _, _, _, _)
OwnerPyramidLoop(acc, own, fg, cref, fi) ==
    IF acc.st # "ok" \/ fi >= Len(own) THEN acc
    ELSE LET o == own[fi + 1]
         IN IF fi >= Len(fg) \/ o >= Len(cref) THEN Panic
            ELSE LET pyr == Pyramid(fg[fi + 1].center, fg[fi + 1].area_vec, cref[o + 1])
                 IN OwnerPyramidLoop(
                        Ok(AddPyramid(acc.val, o, [vol |-> pyr.vol, center |-> pyr.center,
                                                   face |-> fi])),
                        own, fg, cref, fi + 1)

\* a plausible slip: the neighbor side uses the area vector as it is
RECURSIVE NeighborPyramidLoop_not_negated(_, _, _, _, _, _)
NeighborPyramidLoop_not_negated(acc, nbr, nif, fg, cref, fi) ==
    IF acc.st # "ok" \/ fi >= nif THEN acc
    ELSE IF fi >= Len(nbr) THEN Panic
    ELSE LET n == nbr[fi + 1]
         IN IF fi >= Len(fg) \/ n >= Len(cref) THEN Panic
            ELSE LET pyr == Pyramid(fg[fi + 1].center, fg[fi + 1].area_vec, cref[n + 1])
                 IN NeighborPyramidLoop_not_negated(
                        Ok(AddPyramid(acc.val, n, [vol |-> pyr.vol, center |-> pyr.center,
                                                   face |-> fi])),
                        nbr, nif, fg, cref, fi + 1)

\* for fi in 0..n_internal_faces { ... }   (neighbor faces, area vector negated)
RECURSIVE NeighborPyramidLoop(_, _, _, _, _, _)
NeighborPyramidLoop(acc, nbr, nif, fg, cref, fi) ==
    IF acc.st # "ok" \/ fi >= nif THEN acc
    ELSE IF fi >= Len(nbr) THEN Panic
    ELSE LET n == nbr[fi + 1]
         IN IF fi >= Len(fg) \/ n >= Len(cref) THEN Panic
            ELSE LET pyr == Pyramid(fg[fi + 1].center, VNeg(fg[fi + 1].area_vec),
                                    cref[n + 1])
                 IN NeighborPyramidLoop(
                        Ok(AddPyramid(acc.val, n, [vol |-> pyr.vol, center |-> pyr.center,
                                                   face |-> fi])),
                        nbr, nif, fg, cref, fi + 1)

\* a plausible slip: the division is done whatever the volume is
CellCenters_no_guard(sums, cref) ==
    [ci \in 1..Len(cref) |->
        VDiv(sums.cell_centers_weighted[ci], sums.cell_volumes[ci])]

\* if cell_volumes[ci].abs() > 1e-30 { weighted / volume } else { c_ref[ci] }
CellCenters(sums, cref) ==
    [ci \in 1..Len(cref) |->
        IF GtEps(RAbs(sums.cell_volumes[ci]))
        THEN VDiv(sums.cell_centers_weighted[ci], sums.cell_volumes[ci])
        ELSE cref[ci]]

\* lines 114-123: the result, with the intermediate values the claims speak
\* of: c_ref, and order, the faces in the order their pyramids were added to
\* each cell
CellGeomResult(sums, cref) ==
    IF sums.st # "ok" THEN Panic
    ELSE Ok([cell_volumes |-> sums.val.cell_volumes,
             cell_centers |-> CellCenters(sums.val, cref),
             c_ref |-> cref,
             order |-> sums.val.order])

\* a plausible slip: the neighbor pass of the pyramid sums runs before the
\* owner pass
CellGeomFromRefs_neighbor_first(fg, cref, own, nbr, nif, nc) ==
    IF cref.st # "ok" THEN Panic
    ELSE CellGeomResult(
            OwnerPyramidLoop(
                NeighborPyramidLoop(
                    Ok([cell_volumes |-> [ci \in 1..nc |-> Zero],
                        cell_centers_weighted |-> [ci \in 1..nc |-> VZero],
                        order |-> [ci \in 1..nc |-> <<>>]]),
                    nbr, nif, fg, cref.val, 0),
                own, fg, cref.val, 0),
            cref.val)

\* lines 92-123: the pyramid sums over the owner faces, then over the
\* neighbor faces, from the face geometry and the reference points
CellGeomFromRefs(fg, cref, own, nbr, nif, nc) ==
    IF cref.st # "ok" THEN Panic
    ELSE CellGeomResult(
            NeighborPyramidLoop(
                OwnerPyramidLoop(
                    Ok([cell_volumes |-> [ci \in 1..nc |-> Zero],
                        cell_centers_weighted |-> [ci \in 1..nc |-> VZero],
                        order |-> [ci \in 1..nc |-> <<>>]]),
                    own, fg, cref.val, 0),
                nbr, nif, fg, cref.val, 0),
            cref.val)

\* lines 74-123: everything after the face geometry
CellGeomFromFaces(fg, own, nbr, nif, nc) ==
    IF fg.st # "ok" THEN Panic
    ELSE CellGeomFromRefs(fg.val, CellRefs(fg.val, own, nbr, nc), own, nbr, nif, nc)

compute_cell_geometry(pts, fcs, own, nbr, nif, nc) ==
    CellGeomFromFaces(FaceGeomLoop(Ok(<<>>), pts, fcs, 1), own, nbr, nif, nc)

CallComputeCellPoints ==
    /\ cell_faces.st = "ok"
    /\ cell_points' = compute_cell_points(cell_faces.val, faces, n_cells)
    /\ UNCHANGED <<inputs, cell_faces, cell_cells, cell_geom, face_geom, tensor_out>>

CallComputeCellGeometry ==
    /\ cell_geom' = compute_cell_geometry(points, faces, owner, neighbor,
                                          n_internal_faces, n_cells)
    /\ UNCHANGED <<inputs, cell_faces, cell_cells, cell_points, face_geom, tensor_out>>

CallComputeFaceGeometry ==
    /\ face_geom' = compute_face_geometry(points, face)
    /\ UNCHANGED <<inputs, cell_faces, cell_cells, cell_points, cell_geom, tensor_out>>

(***************************************************************************)
(* Topology specification: compute_cell_faces and compute_cell_cells over  *)
(* every owner / neighbor arrays within the bounds.                        *)
(***************************************************************************)
InitTopo ==
    /\ n_cells \in 1..MaxCells
    /\ \E nf \in 0..MaxFaces :
          /\ owner \in SeqsOfLen(Cells(n_cells), nf)
          /\ n_internal_faces \in 0..nf
    /\ neighbor \in NeighborArrays(n_internal_faces, n_cells, MaxFaces)
    /\ points = <<>>
    /\ faces = <<>>
    /\ face = <<>>
    /\ cell_faces = NotCalled
    /\ cell_cells = NotCalled
    /\ cell_points = NotCalled
    /\ cell_geom = NotCalled
    /\ face_geom = NotCalled
    /\ NoTensorOperands

NextTopo ==
    \/ CallComputeCellFaces
    \/ CallComputeCellCells

SpecTopo == InitTopo /\ [][NextTopo]_vars

(***************************************************************************)
(* Face specification: compute_face_geometry over every polygon whose      *)
(* vertices are points of a planar integer grid, in any order and with     *)
(* repetitions (triangles and quadrilaterals; convex, non-convex,          *)
(* self-intersecting, collinear, coincident).                              *)
(***************************************************************************)
NumGridPoints == 9
GridWidth == 3

\* the first NumGridPoints points of the integer grid of the plane z = 0,
\* row by row, GridWidth points to a row
GridPoints ==
    [k \in 1..NumGridPoints |-> Vec((k - 1) % GridWidth, (k - 1) \div GridWidth, 0)]

FaceArities == {3, 4}

InitFace ==
    /\ points = GridPoints
    /\ \E n \in FaceArities : face \in SeqsOfLen(0..(Len(points) - 1), n)
    /\ faces = <<>>
    /\ owner = <<>>
    /\ neighbor = <<>>
    /\ n_internal_faces = 0
    /\ n_cells = 0
    /\ cell_faces = NotCalled
    /\ cell_cells = NotCalled
    /\ cell_points = NotCalled
    /\ cell_geom = NotCalled
    /\ face_geom = NotCalled
    /\ NoTensorOperands

NextFace == CallComputeFaceGeometry

SpecFace == InitFace /\ [][NextFace]_vars


(***************************************************************************)
(* Mesh specification: the four per-cell derivations on the two-cube mesh  *)
(* of the tests (cell_geometry_two_cells) and on every mesh made of its    *)
(* first faces, with f0 internal or boundary, with cells no face refers    *)
(* to, and with neighbor arrays longer than n_internal_faces.  The         *)
(* derivations run in the order of the data flow (geometry, then           *)
(* CellFaces, CellCells, CellPoints); each may be repeated before the next *)
(* one runs.                                                               *)
(***************************************************************************)
MaxSpareCells == 1
MaxTail == 1

BoxPoints ==
    <<Vec(0, 0, 0), Vec(1, 0, 0), Vec(1, 1, 0), Vec(0, 1, 0),
      Vec(0, 0, 1), Vec(1, 0, 1), Vec(1, 1, 1), Vec(0, 1, 1),
      Vec(2, 0, 0), Vec(2, 1, 0), Vec(2, 0, 1), Vec(2, 1, 1)>>

BoxFaces ==
    <<<<1, 2, 6, 5>>, <<0, 3, 2, 1>>, <<4, 5, 6, 7>>, <<0, 1, 5, 4>>,
      <<3, 7, 6, 2>>, <<0, 4, 7, 3>>, <<8, 9, 11, 10>>, <<1, 8, 10, 5>>,
      <<2, 6, 11, 9>>, <<1, 2, 9, 8>>, <<5, 10, 11, 6>>>>

BoxOwner == <<0, 0, 0, 0, 0, 0, 1, 1, 1, 1, 1>>

BoxNeighbor == <<1>>

\* one more than the largest cell index in the arrays (0 when they are empty)
CellsReferred(own, nbr) ==
    LET used == Range(own) \cup Range(nbr)
    IN IF used = {} THEN 0 ELSE 1 + CHOOSE c \in used : \A d \in used : d <= c

InitMesh ==
    /\ points = BoxPoints
    /\ \E nf \in 1..Len(BoxFaces) :
          /\ faces = SubSeq(BoxFaces, 1, nf)
          /\ owner = SubSeq(BoxOwner, 1, nf)
    /\ n_internal_faces \in 0..Len(BoxNeighbor)
    /\ \E spare \in 0..MaxSpareCells :
          n_cells = CellsReferred(owner, SubSeq(BoxNeighbor, 1, n_internal_faces)) + spare
    /\ \E tail \in UNION {SeqsOfLen(0..n_cells, k) : k \in 0..MaxTail} :
          neighbor = SubSeq(BoxNeighbor, 1, n_internal_faces) \o tail
    /\ face = <<>>
    /\ cell_faces = NotCalled
    /\ cell_cells = NotCalled
    /\ cell_points = NotCalled
    /\ cell_geom = NotCalled
    /\ face_geom = NotCalled
    /\ NoTensorOperands

NextMesh ==
    \/ cell_faces.st = "none" /\ CallComputeCellGeometry
    \/ cell_geom.st # "none" /\ cell_cells.st = "none" /\ CallComputeCellFaces
    \/ cell_faces.st # "none" /\ cell_points.st = "none" /\ CallComputeCellCells
    \/ cell_cells.st # "none" /\ CallComputeCellPoints

SpecMesh == InitMesh /\ [][NextMesh]_vars

\* the data-model invariants of the inputs (spec section 3)
DataModelInvariants ==
    /\ Len(owner) = Len(faces)
    /\ n_internal_faces <= Len(faces)
    /\ n_internal_faces <= Len(neighbor)
    /\ \A i \in 1..Len(owner) : owner[i] < n_cells
    /\ \A i \in 1..n_internal_faces : neighbor[i] < n_cells
    /\ \A i \in 1..Len(faces) : \A k \in 1..Len(faces[i]) : faces[i][k] < Len(points)

\* every magnitude the face geometry of the mesh takes is exact
ExactMagnitudes ==
    \A i \in 1..Len(faces) :
        LET p_ref == VDiv(FaceRefLoop(Ok(VZero), points, faces[i], 1).val,
                          Num(Len(faces[i])))
        IN \A k \in 0..(Len(faces[i]) - 1) :
              MagIsExact(FanTriangle(points, faces[i], p_ref, k).area_vec)


(***************************************************************************)
(* Box specification: compute_cell_geometry on the single cube of the      *)
(* tests (cell_geometry_single_cube_volume) and on the two cubes of        *)
(* cell_geometry_two_cells, with the cubes stretched to axis-aligned boxes *)
(* of any edge lengths, moved along the diagonal, and with the vertex list *)
(* of every face started at any of its vertices (the winding stays         *)
(* outward).  neighbor holds n_internal_faces entries, as in the tests.    *)
(***************************************************************************)
MaxEdge == 2
MaxShift == 1

\* the 12 points of cell_geometry_two_cells for a first box [o, o+a] and a
\* second box [o+a, o+a+b] along x, both [o, o+ly] along y and [o, o+lz]
\* along z; the first 8 are cube_points
BoxMeshPoints(o, a, b, ly, lz) ==
    <<Vec(o, o, o), Vec(o + a, o, o), Vec(o + a, o + ly, o), Vec(o, o + ly, o),
      Vec(o, o, o + lz), Vec(o + a, o, o + lz), Vec(o + a, o + ly, o + lz),
      Vec(o, o + ly, o + lz),
      Vec(o + a + b, o, o), Vec(o + a + b, o + ly, o),
      Vec(o + a + b, o, o + lz), Vec(o + a + b, o + ly, o + lz)>>

\* cube_faces
CubeFaces ==
    <<<<0, 3, 2, 1>>, <<4, 5, 6, 7>>, <<0, 1, 5, 4>>,
      <<3, 7, 6, 2>>, <<0, 4, 7, 3>>, <<1, 2, 6, 5>>>>

CubeOwner == <<0, 0, 0, 0, 0, 0>>

\* the vertex list f started r vertices later: same polygon, same winding
RotateFace(f, r) == [k \in 1..Len(f) |-> f[((k - 1 + r) % Len(f)) + 1]]

RotateFaces(fcs, r) == [i \in 1..Len(fcs) |-> RotateFace(fcs[i], r)]

QuadRotations == 0..3

\* the edge lengths of the boxes: the unit and the longest one
EdgeLengths == {1, MaxEdge}

InitBox ==
    /\ \E o \in (-MaxShift)..MaxShift, a, ly, lz \in EdgeLengths, r \in QuadRotations :
          \/ /\ points = SubSeq(BoxMeshPoints(o, a, 1, ly, lz), 1, 8)
             /\ faces = RotateFaces(CubeFaces, r)
             /\ owner = CubeOwner
             /\ neighbor = <<>>
             /\ n_internal_faces = 0
             /\ n_cells = 1
          \/ \E b \in EdgeLengths :
                /\ points = BoxMeshPoints(o, a, b, ly, lz)
                /\ faces = RotateFaces(BoxFaces, r)
                /\ owner = BoxOwner
                /\ neighbor = BoxNeighbor
                /\ n_internal_faces = 1
                /\ n_cells = 2
    /\ face = <<>>
    /\ cell_faces = NotCalled
    /\ cell_cells = NotCalled
    /\ cell_points = NotCalled
    /\ cell_geom = NotCalled
    /\ face_geom = NotCalled
    /\ NoTensorOperands

NextBox == CallComputeCellGeometry

SpecBox == InitBox /\ [][NextBox]_vars

(***************************************************************************)
(* Vocabulary of the claims                                                *)
(***************************************************************************)
\* the indices 0 .. n-1 in ascending order
Ascending(n) == [i \in 1..n |-> i - 1]

\* number of occurrences of x in the list s
Occurrences(x, s) == Cardinality({i \in 1..Len(s) : s[i] = x})

RECURSIVE TotalLen(_)
TotalLen(lists) ==
    IF lists = <<>> THEN 0 ELSE Len(Head(lists)) + TotalLen(Tail(lists))

InternalFaces == 0..(n_internal_faces - 1)
BoundaryFaces == n_internal_faces..(Len(owner) - 1)

\* the faces a cell owns, ascending
OwnedFaces(c) == SelectSeq(Ascending(Len(owner)), LAMBDA f : owner[f + 1] = c)

\* the internal faces a cell is neighbor of, ascending
NeighboredFaces(c) ==
    SelectSeq(Ascending(n_internal_faces), LAMBDA f : neighbor[f + 1] = c)

(***************************************************************************)
(* C1: for every cell c, compute_cell_faces returns as c's list exactly    *)
(* the faces owned by c in ascending order followed by the internal faces  *)
(* whose neighbor is c in ascending order: every owner contribution        *)
(* precedes every neighbor contribution.                                   *)
(***************************************************************************)
C1_CellFacesOwnerThenNeighbor ==
    cell_faces.st # "none" =>
        /\ cell_faces.st = "ok"
        /\ Len(cell_faces.val) = n_cells
        /\ \A c \in Cells(n_cells) :
              cell_faces.val[c + 1] = OwnedFaces(c) \o NeighboredFaces(c)

\* a cell whose list holds a neighbor contribution with a smaller face index
\* after an owner contribution with a larger one
C1_Witness ==
    /\ cell_faces.st = "ok"
    /\ \E c \in Cells(n_cells) :
          /\ OwnedFaces(c) # <<>>
          /\ NeighboredFaces(c) # <<>>
          /\ OwnedFaces(c)[Len(OwnedFaces(c))] > NeighboredFaces(c)[1]

(***************************************************************************)
(* C2: in the result of compute_cell_faces every internal face is in the   *)
(* list of its owner and in the list of its neighbor, every boundary face  *)
(* is in exactly one cell's list (its owner's, once), and the lists hold   *)
(* owner.len() + n_internal_faces entries in total.                        *)
(***************************************************************************)
C2_CellFacesMembership ==
    cell_faces.st # "none" =>
        /\ cell_faces.st = "ok"
        /\ \A f \in InternalFaces :
              /\ f \in Range(cell_faces.val[owner[f + 1] + 1])
              /\ f \in Range(cell_faces.val[neighbor[f + 1] + 1])
        /\ \A f \in BoundaryFaces :
              /\ {c \in Cells(n_cells) : f \in Range(cell_faces.val[c + 1])}
                    = {owner[f + 1]}
              /\ Occurrences(f, cell_faces.val[owner[f + 1] + 1]) = 1
        /\ TotalLen(cell_faces.val) = Len(owner) + n_internal_faces

\* an internal face shared by two different cells next to a boundary face
C2_Witness ==
    /\ cell_faces.st = "ok"
    /\ BoundaryFaces # {}
    /\ \E f \in InternalFaces :
          /\ owner[f + 1] # neighbor[f + 1]
          /\ f \in Range(cell_faces.val[owner[f + 1] + 1])
          /\ f \in Range(cell_faces.val[neighbor[f + 1] + 1])

(***************************************************************************)
(* C3: CellCells symmetry.  Every internal face f with owner A and         *)
(* neighbor B contributes one entry B to A's list and one entry A to B's   *)
(* list: the occurrences of B in A's list are as many as the internal      *)
(* faces between A and B (in either direction), and as many as the         *)
(* occurrences of A in B's list.                                           *)
(***************************************************************************)
FacesFromTo(a, b) == {f \in InternalFaces : owner[f + 1] = a /\ neighbor[f + 1] = b}

C3_CellCellsSymmetry ==
    cell_cells.st # "none" =>
        /\ cell_cells.st = "ok"
        /\ \A a, b \in Cells(n_cells) :
              /\ Occurrences(b, cell_cells.val[a + 1])
                    = Cardinality(FacesFromTo(a, b)) + Cardinality(FacesFromTo(b, a))
              /\ Occurrences(b, cell_cells.val[a + 1])
                    = Occurrences(a, cell_cells.val[b + 1])

\* two different cells adjacent through an internal face
C3_Witness ==
    /\ cell_cells.st = "ok"
    /\ \E a, b \in Cells(n_cells) :
          /\ a # b
          /\ FacesFromTo(a, b) # {}
          /\ Occurrences(b, cell_cells.val[a + 1]) >= 1

(***************************************************************************)
(* C4: compute_cell_cells goes through the internal faces in ascending     *)
(* order and records two directed entries per internal face (neighbor[f]   *)
(* in owner[f]'s list, then owner[f] in neighbor[f]'s list); boundary      *)
(* faces contribute nothing: 2 * n_internal_faces entries in total, and    *)
(* with n_internal_faces = 0 every list is empty.                          *)
(***************************************************************************)
\* what internal face f adds to the list of cell c
FaceEntries(c, f) ==
    (IF owner[f + 1] = c THEN <<neighbor[f + 1]>> ELSE <<>>)
        \o (IF neighbor[f + 1] = c THEN <<owner[f + 1]>> ELSE <<>>)

\* the entries of cell c from the internal faces f, f+1, ..
RECURSIVE EntriesFrom(_, _)
EntriesFrom(c, f) ==
    IF f >= n_internal_faces THEN <<>>
    ELSE FaceEntries(c, f) \o EntriesFrom(c, f + 1)

C4_CellCellsTwoEntriesPerInternalFace ==
    cell_cells.st # "none" =>
        /\ cell_cells.st = "ok"
        /\ \A c \in Cells(n_cells) : cell_cells.val[c + 1] = EntriesFrom(c, 0)
        /\ TotalLen(cell_cells.val) = 2 * n_internal_faces
        /\ n_internal_faces = 0 =>
              \A c \in Cells(n_cells) : cell_cells.val[c + 1] = <<>>

\* internal faces next to boundary faces, with a neighbor array longer than
\* n_internal_faces
C4_Witness ==
    /\ cell_cells.st = "ok"
    /\ n_internal_faces >= 2
    /\ BoundaryFaces # {}
    /\ Len(neighbor) > n_internal_faces
    /\ TotalLen(cell_cells.val) = 2 * n_internal_faces

\* the same with no internal face at all
C4_WitnessNoInternal ==
    /\ cell_cells.st = "ok"
    /\ n_internal_faces = 0
    /\ Len(owner) > 0

(***************************************************************************)
(* C5: for every cell c the list compute_cell_points returns is strictly   *)
(* ascending (sorted, no duplicate) and its elements are exactly the point *)
(* indices of the faces listed in cell_faces[c].                           *)
(***************************************************************************)
StrictlyAscending(s) == \A i \in 1..(Len(s) - 1) : s[i] < s[i + 1]

\* the point indices of the faces in the list cfi
PointsOfFaces(cfi) == UNION {Range(faces[cfi[k] + 1]) : k \in 1..Len(cfi)}

C5_CellPointsSortedUniqueUnion ==
    cell_points.st # "none" =>
        /\ cell_points.st = "ok"
        /\ \A c \in Cells(n_cells) :
              /\ StrictlyAscending(cell_points.val[c + 1])
              /\ Range(cell_points.val[c + 1]) = PointsOfFaces(cell_faces.val[c + 1])

\* a cell with several faces that share points, listed out of order
C5_Witness ==
    /\ cell_points.st = "ok"
    /\ \E c \in Cells(n_cells) :
          /\ Len(cell_faces.val[c + 1]) >= 3
          /\ Len(cell_points.val[c + 1]) >= 6
          /\ Len(FacePointsConcat(cell_faces.val[c + 1], faces, 1))
                > Len(cell_points.val[c + 1])
          /\ ~StrictlyAscending(FacePointsConcat(cell_faces.val[c + 1], faces, 1))

(***************************************************************************)
(* C6: for inputs that satisfy the data-model invariants,                  *)
(* compute_cell_geometry, compute_cell_faces, compute_cell_cells and       *)
(* compute_cell_points are infallible: none of them panics on an           *)
(* out-of-range index.                                                     *)
(***************************************************************************)
C6_InfallibleOnValidInputs ==
    DataModelInvariants =>
        /\ cell_geom.st # "panic"
        /\ cell_faces.st # "panic"
        /\ cell_cells.st # "panic"
        /\ cell_points.st # "panic"

\* the part of C6 the code keeps: the three topology derivations never panic
C6_TopologyInfallible ==
    DataModelInvariants =>
        /\ cell_faces.st # "panic"
        /\ cell_cells.st # "panic"
        /\ cell_points.st # "panic"

(***************************************************************************)
(* C7: only the first n_internal_faces entries of neighbor are read: a     *)
(* call of compute_cell_geometry, compute_cell_faces or compute_cell_cells *)
(* whose neighbor differs only at indices >= n_internal_faces returns the  *)
(* same output.                                                            *)
(***************************************************************************)
\* the neighbor arrays that agree with neighbor below n_internal_faces
NeighborVariants ==
    {SubSeq(neighbor, 1, n_internal_faces) \o tail :
        tail \in UNION {SeqsOfLen(0..n_cells, k) : k \in 0..MaxTail}}

\* what compute_cell_geometry returns: (cell_volumes, cell_centers), or a panic
GeomOutput(r) ==
    IF r.st = "ok" THEN <<"ok", r.val.cell_volumes, r.val.cell_centers>>
    ELSE <<r.st, <<>>, <<>>>>

C7_NeighborTailNotRead ==
    /\ cell_geom.st # "none" =>
          \A nbr \in NeighborVariants :
              GeomOutput(compute_cell_geometry(points, faces, owner, nbr,
                                               n_internal_faces, n_cells))
                 = GeomOutput(cell_geom)
    /\ cell_faces.st # "none" =>
          \A nbr \in NeighborVariants :
              compute_cell_faces(owner, nbr, n_internal_faces, n_cells) = cell_faces
    /\ cell_cells.st # "none" =>
          \A nbr \in NeighborVariants :
              compute_cell_cells(cell_faces.val, owner, nbr, n_internal_faces, n_cells)
                 = cell_cells

\* the part of C7 the code keeps: the two topology derivations
C7_TopologyIgnoresNeighborTail ==
    /\ cell_faces.st # "none" =>
          \A nbr \in NeighborVariants :
              compute_cell_faces(owner, nbr, n_internal_faces, n_cells) = cell_faces
    /\ cell_cells.st # "none" =>
          \A nbr \in NeighborVariants :
              compute_cell_cells(cell_faces.val, owner, nbr, n_internal_faces, n_cells)
                 = cell_cells

\* C7 fails without any panic: both calls return, with different centroids
C7_BothReturnAndDiffer ==
    /\ cell_geom.st = "ok"
    /\ \E nbr \in NeighborVariants :
          LET other == compute_cell_geometry(points, faces, owner, nbr,
                                             n_internal_faces, n_cells)
          IN other.st = "ok" /\ GeomOutput(other) # GeomOutput(cell_geom)

(***************************************************************************)
(* C8: every per-cell output has one entry per cell index in [0, n_cells): *)
(* the volumes and the centroids of compute_cell_geometry and the outer    *)
(* lists of compute_cell_faces, compute_cell_cells and compute_cell_points *)
(* all have length n_cells.                                                *)
(***************************************************************************)
C8_OneEntryPerCell ==
    /\ cell_geom.st = "ok" =>
          /\ Len(cell_geom.val.cell_volumes) = n_cells
          /\ Len(cell_geom.val.cell_centers) = n_cells
    /\ cell_faces.st # "none" => cell_faces.st = "ok" /\ Len(cell_faces.val) = n_cells
    /\ cell_cells.st # "none" => cell_cells.st = "ok" /\ Len(cell_cells.val) = n_cells
    /\ cell_points.st # "none" => cell_points.st = "ok" /\ Len(cell_points.val) = n_cells

\* the four outputs of a mesh of two cells and a third cell without any face
C8_Witness ==
    /\ cell_geom.st = "ok"
    /\ cell_faces.st = "ok"
    /\ cell_cells.st = "ok"
    /\ cell_points.st = "ok"
    /\ n_cells = 3
    /\ Len(cell_geom.val.cell_volumes) = 3
    /\ Len(cell_points.val) = 3
    /\ cell_faces.val[3] = <<>>

(***************************************************************************)
(* Vocabulary of the face claims                                           *)
(***************************************************************************)
\* the reference point of the face: the mean of its vertices
FaceRef == VDiv(FaceRefLoop(Ok(VZero), points, face, 1).val, Num(Len(face)))

\* sum over the fan triangles i, i+1, .. of |a_i|
RECURSIVE SumOfAreas(_)
SumOfAreas(i) ==
    IF i >= Len(face) THEN Zero
    ELSE RAdd(FanTriangle(points, face, FaceRef, i).area, SumOfAreas(i + 1))

\* sum over the fan triangles i, i+1, .. of |a_i| * c_i
RECURSIVE SumOfWeightedCenters(_)
SumOfWeightedCenters(i) ==
    IF i >= Len(face) THEN VZero
    ELSE LET t == FanTriangle(points, face, FaceRef, i)
         IN VAdd(VScale(t.center, t.area), SumOfWeightedCenters(i + 1))

\* the area-magnitude-weighted average of the fan-triangle centroids
WeightedAverageOfCenters == VDiv(SumOfWeightedCenters(0), SumOfAreas(0))

\* the face is not degenerate: the magnitude of its area vector exceeds 1e-30
NonDegenerate == face_geom.st = "ok" /\ GtEps(VMag(face_geom.val.area_vec))

\* integer coordinates of vertex i (0-based, cyclic) of the face
VX(i) == points[face[(i % Len(face)) + 1] + 1][1][1]
VY(i) == points[face[(i % Len(face)) + 1] + 1][2][1]

\* the turn at vertex i+1: (v_{i+1} - v_i) x (v_{i+2} - v_{i+1})
Turn(i) ==
    (VX(i + 1) - VX(i)) * (VY(i + 2) - VY(i + 1))
        - (VY(i + 1) - VY(i)) * (VX(i + 2) - VX(i + 1))

\* a strictly convex triangle or quadrilateral: every turn goes the same way
StrictlyConvex ==
    \/ \A i \in 0..(Len(face) - 1) : Turn(i) > 0
    \/ \A i \in 0..(Len(face) - 1) : Turn(i) < 0

\* orientation of the vertices i, j, k: twice the signed area of the triangle
Orient(i, j, k) ==
    (VX(j) - VX(i)) * (VY(k) - VY(i)) - (VY(j) - VY(i)) * (VX(k) - VX(i))

Between(a, b, c) == (a <= c /\ c <= b) \/ (b <= c /\ c <= a)

\* vertex k lies on the closed segment from vertex i to vertex j
OnSegment(i, j, k) ==
    /\ Orient(i, j, k) = 0
    /\ Between(VX(i), VX(j), VX(k))
    /\ Between(VY(i), VY(j), VY(k))

\* edge i (from vertex i to vertex i+1) and edge j have a point in common
EdgesMeet(i, j) ==
    \/ /\ Orient(j, j + 1, i) * Orient(j, j + 1, i + 1) < 0
       /\ Orient(i, i + 1, j) * Orient(i, i + 1, j + 1) < 0
    \/ OnSegment(j, j + 1, i)
    \/ OnSegment(j, j + 1, i + 1)
    \/ OnSegment(i, i + 1, j)
    \/ OnSegment(i, i + 1, j + 1)

\* a simple polygon: no three consecutive vertices on a line, and edges that
\* are not adjacent have no point in common
SimplePolygon ==
    /\ \A i \in 0..(Len(face) - 1) : Orient(i, i + 1, i + 2) # 0
    /\ \A i, j \in 0..(Len(face) - 1) :
          (j > i + 1 /\ (j + 1) % Len(face) # i) => ~EdgesMeet(i, j)

\* the surveyor's formulas of a planar polygon: twice the signed area and the
\* centroid
RECURSIVE Shoelace(_, _)
Shoelace(W(_), i) ==
    IF i >= Len(face) THEN 0
    ELSE W(i) * (VX(i) * VY(i + 1) - VX(i + 1) * VY(i)) + Shoelace(W, i + 1)

TwiceSignedArea == Shoelace(LAMBDA i : 1, 0)

PolygonArea == Frac(Abs(TwiceSignedArea), 2)

PolygonCentroid ==
    <<Frac(Shoelace(LAMBDA i : VX(i) + VX(i + 1), 0), 3 * TwiceSignedArea),
      Frac(Shoelace(LAMBDA i : VY(i) + VY(i + 1), 0), 3 * TwiceSignedArea),
      Zero>>

\* the index in points of the grid point (x, y, 0)
GridIndex(x, y) == y * GridWidth + x

(***************************************************************************)
(* C9: for a non-degenerate face the centroid compute_face_geometry        *)
(* returns is the area-magnitude-weighted average of the fan-triangle      *)
(* centroids, sum(|a_i| * c_i) / sum(|a_i|), for arbitrary polygons,       *)
(* non-convex ones included.                                               *)
(***************************************************************************)
C9_CentroidIsWeightedAverage ==
    (NonDegenerate /\ SimplePolygon) =>
        face_geom.val.center = WeightedAverageOfCenters

\* the same over every vertex list, self-intersecting ones included
C9_CentroidIsWeightedAverageAnyList ==
    NonDegenerate => face_geom.val.center = WeightedAverageOfCenters

\* the arrowhead (0,0), (2,1), (0,2), (1,1): a simple, non-convex quadrilateral
Arrowhead == <<GridIndex(0, 0), GridIndex(2, 1), GridIndex(0, 2), GridIndex(1, 1)>>

\* C9 on the arrowhead alone
C9_ArrowheadCentroid ==
    (face = Arrowhead /\ NonDegenerate) =>
        face_geom.val.center = WeightedAverageOfCenters

\* the part of C9 the code keeps: faces whose fan triangles all turn the same
\* way (the area vectors add up without cancelling)
C9_HoldsWithoutCancellation ==
    (NonDegenerate /\ VMag(face_geom.val.area_vec) = SumOfAreas(0)) =>
        face_geom.val.center = WeightedAverageOfCenters

(***************************************************************************)
(* C10: for a planar convex polygon compute_face_geometry returns an area  *)
(* vector whose magnitude is the area of the polygon and a centroid that   *)
(* is the geometric centroid of the polygon; the unit square gives area 1  *)
(* and centroid (0.5, 0.5, 0), the triangle (0,0,0), (2,0,0), (0,2,0)      *)
(* gives area 2 and centroid (2/3, 2/3, 0).                                *)
(***************************************************************************)
UnitSquare == <<GridIndex(0, 0), GridIndex(0, 1), GridIndex(1, 1), GridIndex(1, 0)>>

TestTriangle == <<GridIndex(0, 0), GridIndex(2, 0), GridIndex(0, 2)>>

C10_ConvexFaceAreaAndCentroid ==
    face_geom.st # "none" =>
        /\ face_geom.st = "ok"
        /\ StrictlyConvex =>
              /\ VMag(face_geom.val.area_vec) = PolygonArea
              /\ face_geom.val.center = PolygonCentroid
        /\ face = UnitSquare =>
              /\ VMag(face_geom.val.area_vec) = Num(1)
              /\ face_geom.val.center = <<Frac(1, 2), Frac(1, 2), Zero>>
        /\ face = TestTriangle =>
              /\ VMag(face_geom.val.area_vec) = Num(2)
              /\ face_geom.val.center = <<Frac(2, 3), Frac(2, 3), Zero>>

\* a convex quadrilateral that is no rectangle: its centroid is not the mean
\* of its vertices
C10_Witness ==
    /\ face_geom.st = "ok"
    /\ Len(face) = 4
    /\ StrictlyConvex
    /\ PolygonCentroid # FaceRef
    /\ face_geom.val.center = PolygonCentroid

\* the triangle of the tests
C10_WitnessTriangle ==
    /\ face_geom.st = "ok"
    /\ face = TestTriangle
    /\ StrictlyConvex
    /\ face_geom.val.center = <<Frac(2, 3), Frac(2, 3), Zero>>


(***************************************************************************)
(* C11: degenerate-face policy.  Whenever the magnitude of the summed area *)
(* vector of a face is at most 1e-30 (collinear or coincident vertices, or *)
(* fan triangles that cancel), compute_face_geometry returns the mean of   *)
(* the vertices as the centroid, no component of which comes from a        *)
(* division by the area (none is NaN), and returns the summed area vector  *)
(* as computed.                                                            *)
(***************************************************************************)
\* sum over the fan triangles i, i+1, .. of the area vectors a_i
RECURSIVE SumOfAreaVectors(_)
SumOfAreaVectors(i) ==
    IF i >= Len(face) THEN VZero
    ELSE VAdd(FanTriangle(points, face, FaceRef, i).area_vec, SumOfAreaVectors(i + 1))

\* the magnitude of the summed area vector is at most 1e-30
DegenerateFace == face_geom.st = "ok" /\ ~GtEps(VMag(SumOfAreaVectors(0)))

C11_DegenerateFacePolicy ==
    DegenerateFace =>
        /\ face_geom.val.center = FaceRef
        /\ \A k \in 1..3 : ~IsNaN(face_geom.val.center[k])
        /\ face_geom.val.area_vec = SumOfAreaVectors(0)

\* three different points on a line
C11_Witness ==
    /\ DegenerateFace
    /\ Len(face) = 3
    /\ Cardinality(Range(face)) = 3
    /\ face_geom.val.center = FaceRef

\* all vertices coincident
C11_WitnessCoincident ==
    /\ DegenerateFace
    /\ Cardinality(Range(face)) = 1
    /\ face_geom.val.center = points[face[1] + 1]

\* fan triangles of positive area whose area vectors cancel
C11_WitnessCancelling ==
    /\ DegenerateFace
    /\ GtEps(SumOfAreas(0))
    /\ SumOfWeightedCenters(0) # VZero
    /\ face_geom.val.center = FaceRef

(***************************************************************************)
(* Vocabulary of the cell-geometry claims                                  *)
(***************************************************************************)
\* the faces bounding cell c: the faces it owns, then the internal faces it
\* is the neighbor of
BoundingFaces(c) == OwnedFaces(c) \o NeighboredFaces(c)

\* the centroid compute_face_geometry gives face f of the mesh
FaceCentroid(f) == compute_face_geometry(points, faces[f + 1]).val.center

\* the area vector compute_face_geometry gives face f of the mesh
FaceAreaVector(f) == compute_face_geometry(points, faces[f + 1]).val.area_vec

\* sum of the centroids of the faces fs[k], fs[k+1], ..
RECURSIVE SumOfFaceCentroids(_, _)
SumOfFaceCentroids(fs, k) ==
    IF k > Len(fs) THEN VZero
    ELSE VAdd(FaceCentroid(fs[k]), SumOfFaceCentroids(fs, k + 1))

\* the mean of the centroids of the faces bounding cell c
MeanOfBoundingFaceCentroids(c) ==
    VDiv(SumOfFaceCentroids(BoundingFaces(c), 1), Num(Len(BoundingFaces(c))))

(***************************************************************************)
(* C12: in compute_cell_geometry the reference point of every cell c is    *)
(* the mean of the centroids of exactly the faces bounding c: the faces f  *)
(* with owner[f] = c and the internal faces f < n_internal_faces with      *)
(* neighbor[f] = c, divided by the number of those associations.           *)
(***************************************************************************)
C12_CellRefIsMeanOfBoundingFaces ==
    cell_geom.st = "ok" =>
        \A c \in Cells(n_cells) :
            BoundingFaces(c) # <<>> =>
                cell_geom.val.c_ref[c + 1] = MeanOfBoundingFaceCentroids(c)

\* the part of C12 the code keeps: neighbor arrays of length n_internal_faces
C12_HoldsWithoutNeighborTail ==
    (cell_geom.st = "ok" /\ Len(neighbor) = n_internal_faces) =>
        \A c \in Cells(n_cells) :
            BoundingFaces(c) # <<>> =>
                cell_geom.val.c_ref[c + 1] = MeanOfBoundingFaceCentroids(c)

(***************************************************************************)
(* Vocabulary of the box claims                                            *)
(***************************************************************************)
\* the points of the faces bounding cell c
CellCorners(c) == {points[pi + 1] : pi \in PointsOfFaces(BoundingFaces(c))}

\* smallest and largest coordinate of cell c along axis k (1 = x, 2 = y, 3 = z);
\* the coordinates of the box meshes are integers
CoordinateBounds(vals) ==
    [lo |-> CHOOSE v \in vals : \A w \in vals : v <= w,
     hi |-> CHOOSE v \in vals : \A w \in vals : v >= w]

AxisLo(c, k) == CoordinateBounds({p[k][1] : p \in CellCorners(c)}).lo
AxisHi(c, k) == CoordinateBounds({p[k][1] : p \in CellCorners(c)}).hi

EdgeLength(c, k) == AxisHi(c, k) - AxisLo(c, k)

\* cell c is an axis-aligned box: its corners are the 8 combinations of its
\* extreme coordinates
IsBox(c) ==
    /\ BoundingFaces(c) # <<>>
    /\ CellCorners(c) = {Vec(x, y, z) : x \in {AxisLo(c, 1), AxisHi(c, 1)},
                                        y \in {AxisLo(c, 2), AxisHi(c, 2)},
                                        z \in {AxisLo(c, 3), AxisHi(c, 3)}}
    /\ \A k \in 1..3 : EdgeLength(c, k) > 0

\* the product of the edge lengths of the box
BoxVolume(c) == Num(EdgeLength(c, 1) * EdgeLength(c, 2) * EdgeLength(c, 3))

\* the center of the box
BoxCenter(c) == [k \in 1..3 |-> Frac(AxisLo(c, k) + AxisHi(c, k), 2)]

\* face f is wound so that its area vector points out of cell c
WoundOutwardFrom(f, c) ==
    GtEps(VDot(FaceAreaVector(f), VSub(FaceCentroid(f), BoxCenter(c))))

(***************************************************************************)
(* C13: for a single axis-aligned box cell whose 6 quad faces are wound    *)
(* outward and are all owned by cell 0, with no internal face,             *)
(* compute_cell_geometry returns the product of the edge lengths as the    *)
(* volume and the center of the box as the centroid; the unit cube gives   *)
(* volume 1 and centroid (0.5, 0.5, 0.5).                                  *)
(***************************************************************************)
SingleBox ==
    /\ n_cells = 1
    /\ n_internal_faces = 0
    /\ Len(faces) = 6
    /\ owner = CubeOwner
    /\ IsBox(0)
    /\ \A f \in 0..5 : Len(faces[f + 1]) = 4 /\ WoundOutwardFrom(f, 0)

UnitCube == points = SubSeq(BoxPoints, 1, 8) /\ SingleBox

C13_SingleBoxVolumeAndCentroid ==
    (cell_geom.st # "none" /\ SingleBox) =>
        /\ cell_geom.st = "ok"
        /\ cell_geom.val.cell_volumes = <<BoxVolume(0)>>
        /\ cell_geom.val.cell_centers = <<BoxCenter(0)>>
        /\ UnitCube =>
              /\ cell_geom.val.cell_volumes = <<Num(1)>>
              /\ cell_geom.val.cell_centers = <<<<Frac(1, 2), Frac(1, 2), Frac(1, 2)>>>>

\* a box with three different edge lengths away from the origin
C13_Witness ==
    /\ SingleBox
    /\ cell_geom.st = "ok"
    /\ EdgeLength(0, 1) # EdgeLength(0, 2)
    /\ points[1] # VZero
    /\ cell_geom.val.cell_volumes = <<BoxVolume(0)>>
    /\ cell_geom.val.cell_centers = <<BoxCenter(0)>>

\* the unit cube of the tests
C13_WitnessUnitCube ==
    /\ UnitCube
    /\ faces = CubeFaces
    /\ cell_geom.st = "ok"
    /\ cell_geom.val.cell_volumes = <<Num(1)>>

(***************************************************************************)
(* C14: for two axis-aligned box cells sharing one internal face (face 0,  *)
(* owner cell 0, neighbor cell 1, area vector pointing from cell 0 into    *)
(* cell 1) the neighbor side takes the negated area vector with the        *)
(* neighbor cell's own reference point: both cells get a positive volume   *)
(* equal to their box volume and a centroid equal to their box center; two *)
(* unit cubes give volumes 1 and 1 and centroids (0.5, 0.5, 0.5) and       *)
(* (1.5, 0.5, 0.5).                                                        *)
(***************************************************************************)
TwoBoxes ==
    /\ n_cells = 2
    /\ n_internal_faces = 1
    /\ neighbor = <<1>>
    /\ owner[1] = 0
    /\ IsBox(0)
    /\ IsBox(1)
    /\ Len(BoundingFaces(0)) = 6
    /\ Len(BoundingFaces(1)) = 6
    /\ \A f \in 0..(Len(faces) - 1) : WoundOutwardFrom(f, owner[f + 1])

TwoUnitCubes == points = BoxPoints /\ TwoBoxes

\* the pyramid sums of the faces fs[k], fs[k+1], .. taken as owner faces of a
\* cell with reference point cref
RECURSIVE OwnedPyramidSums(_, _, _)
OwnedPyramidSums(cref, fs, k) ==
    IF k > Len(fs) THEN [vol |-> Zero, weighted |-> VZero]
    ELSE LET g == compute_face_geometry(points, faces[fs[k] + 1]).val
             pyr == Pyramid(g.center, g.area_vec, cref)
             rest == OwnedPyramidSums(cref, fs, k + 1)
         IN [vol |-> RAdd(pyr.vol, rest.vol),
             weighted |-> VAdd(VScale(pyr.center, pyr.vol), rest.weighted)]

\* the pyramid of the internal face 0 on the side of its neighbor, cell 1, as
\* the claim has it: negated area vector, reference point of cell 1
NeighborSidePyramid ==
    Pyramid(FaceCentroid(0), VNeg(FaceAreaVector(0)), cell_geom.val.c_ref[2])

\* the volume of cell 1 with its own faces as owner faces and face 0 as above
NeighborCellVolume ==
    RAdd(OwnedPyramidSums(cell_geom.val.c_ref[2], OwnedFaces(1), 1).vol,
         NeighborSidePyramid.vol)

C14_TwoBoxesVolumesAndCentroids ==
    (cell_geom.st # "none" /\ TwoBoxes) =>
        /\ cell_geom.st = "ok"
        /\ cell_geom.val.cell_volumes = <<BoxVolume(0), BoxVolume(1)>>
        /\ cell_geom.val.cell_centers = <<BoxCenter(0), BoxCenter(1)>>
        /\ \A c \in {0, 1} : GtEps(cell_geom.val.cell_volumes[c + 1])
        /\ cell_geom.val.c_ref = <<BoxCenter(0), BoxCenter(1)>>
        /\ cell_geom.val.cell_volumes[2] = NeighborCellVolume
        /\ TwoUnitCubes =>
              /\ cell_geom.val.cell_volumes = <<Num(1), Num(1)>>
              /\ cell_geom.val.cell_centers
                    = <<<<Frac(1, 2), Frac(1, 2), Frac(1, 2)>>,
                        <<Frac(3, 2), Frac(1, 2), Frac(1, 2)>>>>

\* two boxes of different lengths away from the origin
C14_Witness ==
    /\ TwoBoxes
    /\ cell_geom.st = "ok"
    /\ EdgeLength(0, 1) # EdgeLength(1, 1)
    /\ points[1] # VZero
    /\ GtEps(NeighborSidePyramid.vol)
    /\ cell_geom.val.cell_volumes = <<BoxVolume(0), BoxVolume(1)>>
    /\ cell_geom.val.cell_centers = <<BoxCenter(0), BoxCenter(1)>>

\* the two unit cubes of the tests
C14_WitnessUnitCubes ==
    /\ TwoUnitCubes
    /\ faces = BoxFaces
    /\ cell_geom.st = "ok"
    /\ cell_geom.val.cell_volumes = <<Num(1), Num(1)>>

(***************************************************************************)
(* C15: degenerate-cell policy.  For every cell whose accumulated volume   *)
(* has magnitude at most 1e-30, compute_cell_geometry returns the cell     *)
(* reference point as the centroid, without a division by the volume (no   *)
(* component is NaN), and reports the accumulated pyramid sum as the       *)
(* volume; for every other cell the centroid is the accumulated            *)
(* volume-weighted centroid divided by the accumulated volume.             *)
(***************************************************************************)
\* the pyramid sums of the faces fs[k], fs[k+1], .. taken as neighbor faces
\* (negated area vector) of a cell with reference point cref
RECURSIVE NeighboredPyramidSums(_, _, _)
NeighboredPyramidSums(cref, fs, k) ==
    IF k > Len(fs) THEN [vol |-> Zero, weighted |-> VZero]
    ELSE LET g == compute_face_geometry(points, faces[fs[k] + 1]).val
             pyr == Pyramid(g.center, VNeg(g.area_vec), cref)
             rest == NeighboredPyramidSums(cref, fs, k + 1)
         IN [vol |-> RAdd(pyr.vol, rest.vol),
             weighted |-> VAdd(VScale(pyr.center, pyr.vol), rest.weighted)]

\* what the pyramids of the faces bounding cell c add up to, from the
\* reference point the call used
AccumulatedSums(c) ==
    LET own == OwnedPyramidSums(cell_geom.val.c_ref[c + 1], OwnedFaces(c), 1)
        nbr == NeighboredPyramidSums(cell_geom.val.c_ref[c + 1], NeighboredFaces(c), 1)
    IN [vol |-> RAdd(own.vol, nbr.vol), weighted |-> VAdd(own.weighted, nbr.weighted)]

AccumulatedVolume(c) == AccumulatedSums(c).vol

DegenerateCell(c) == ~GtEps(RAbs(AccumulatedVolume(c)))

\* the policy on one cell, given its accumulated sums
CellPolicy(c, acc) ==
    /\ cell_geom.val.cell_volumes[c + 1] = acc.vol
    /\ IF GtEps(RAbs(acc.vol))
       THEN cell_geom.val.cell_centers[c + 1] = VDiv(acc.weighted, acc.vol)
       ELSE /\ cell_geom.val.cell_centers[c + 1] = cell_geom.val.c_ref[c + 1]
            /\ \A k \in 1..3 : ~IsNaN(cell_geom.val.cell_centers[c + 1][k])

C15_DegenerateCellPolicy ==
    cell_geom.st = "ok" =>
        \A c \in Cells(n_cells) : CellPolicy(c, AccumulatedSums(c))

\* a cell with faces and no volume next to a cell with a volume whose
\* centroid is not its reference point
C15_Witness ==
    /\ cell_geom.st = "ok"
    /\ \E c \in Cells(n_cells) :
          /\ BoundingFaces(c) # <<>>
          /\ DegenerateCell(c)
          /\ cell_geom.val.cell_centers[c + 1] = cell_geom.val.c_ref[c + 1]
          /\ cell_geom.val.c_ref[c + 1] # VZero
    /\ \E c \in Cells(n_cells) :
          /\ ~DegenerateCell(c)
          /\ cell_geom.val.cell_centers[c + 1] # cell_geom.val.c_ref[c + 1]

\* a cell of negative accumulated volume: the magnitude decides, not the sign
C15_WitnessNegativeVolume ==
    /\ cell_geom.st = "ok"
    /\ \E c \in Cells(n_cells) :
          /\ cell_geom.val.cell_volumes[c + 1][1] < 0
          /\ cell_geom.val.cell_centers[c + 1]
                = VDiv(AccumulatedSums(c).weighted, AccumulatedVolume(c))

(***************************************************************************)
(* C17: in compute_cell_geometry the face contributions are accumulated    *)
(* into one cell's volume and weighted centroid in this order: the cell's  *)
(* owner faces in ascending face index, then the cell's neighbor faces in  *)
(* ascending internal-face index; for every cell it is the order of the    *)
(* cell's list in compute_cell_faces.                                      *)
(***************************************************************************)
C17_AccumulationOrderIsCellFacesOrder ==
    /\ cell_geom.st = "ok" =>
          \A c \in Cells(n_cells) :
              cell_geom.val.order[c + 1] = OwnedFaces(c) \o NeighboredFaces(c)
    /\ (cell_geom.st = "ok" /\ cell_faces.st = "ok") =>
          \A c \in Cells(n_cells) :
              cell_geom.val.order[c + 1] = cell_faces.val[c + 1]

\* a cell whose neighbor face has a smaller index than the faces it owns
C17_Witness ==
    /\ cell_geom.st = "ok"
    /\ cell_faces.st = "ok"
    /\ \E c \in Cells(n_cells) :
          /\ Len(OwnedFaces(c)) >= 2
          /\ NeighboredFaces(c) # <<>>
          /\ NeighboredFaces(c)[1] < OwnedFaces(c)[1]
          /\ cell_geom.val.order[c + 1] = cell_faces.val[c + 1]

(***************************************************************************)
(* C18: the area vector compute_face_geometry returns follows the          *)
(* right-hand rule of the vertex order.  For a planar polygon in the plane *)
(* z = 0 its x and y components are zero and its z component is negative   *)
(* when the vertices are listed clockwise as seen from +z (the unit square *)
(* in order [0,3,2,1]) and positive when they are listed                   *)
(* counter-clockwise; reversing the vertex order of a face negates the     *)
(* area vector.                                                            *)
(***************************************************************************)
\* the vertex list in the opposite order
Reverse(s) == [k \in 1..Len(s) |-> s[Len(s) + 1 - k]]

\* a simple polygon of the plane z = 0 listed clockwise / counter-clockwise
\* as seen from +z: the sign of its signed area
Clockwise == SimplePolygon /\ TwiceSignedArea < 0
CounterClockwise == SimplePolygon /\ TwiceSignedArea > 0

C18_AreaVectorRightHandRule ==
    face_geom.st = "ok" =>
        /\ face_geom.val.area_vec[1] = Zero
        /\ face_geom.val.area_vec[2] = Zero
        /\ Clockwise => face_geom.val.area_vec[3][1] < 0
        /\ CounterClockwise => face_geom.val.area_vec[3][1] > 0
        /\ face_geom.val.area_vec[3] = Frac(TwiceSignedArea, 2)
        /\ face = UnitSquare => face_geom.val.area_vec = Vec(0, 0, -1)
        /\ compute_face_geometry(points, Reverse(face)).val.area_vec
              = VNeg(face_geom.val.area_vec)

\* the unit square of the tests, clockwise as seen from +z
C18_Witness ==
    /\ face_geom.st = "ok"
    /\ face = UnitSquare
    /\ Clockwise
    /\ face_geom.val.area_vec = Vec(0, 0, -1)
    /\ compute_face_geometry(points, Reverse(face)).val.area_vec = Vec(0, 0, 1)

\* a non-convex quadrilateral listed counter-clockwise
C18_WitnessCounterClockwise ==
    /\ face_geom.st = "ok"
    /\ face = Arrowhead
    /\ CounterClockwise
    /\ ~StrictlyConvex
    /\ face_geom.val.area_vec[3][1] > 0

\* the reversal on the faces of the box meshes, which lie in all three
\* coordinate planes
C18_ReversalOnBoxFaces ==
    \A f \in 0..(Len(faces) - 1) :
        compute_face_geometry(points, Reverse(faces[f + 1])).val.area_vec
            = VNeg(FaceAreaVector(f))

(***************************************************************************)
(* C19: mixed-rank addition expands the spherical value onto the diagonal  *)
(* only.  For every SymmTensor S and SphericalTensor(s): S + Sph(s) has    *)
(* the components [xx+s, xy, xz, yy+s, yz, zz+s], Sph(s) + S equals        *)
(* S + Sph(s), S - Sph(s) has [xx-s, xy, xz, yy-s, yz, zz-s], and          *)
(* Sph(s) - S equals the negation of S - Sph(s).                           *)
(***************************************************************************)
\* the components of the operands are integers: component k of S, and s
SymmComponent(k) == symm[k][1]
SphValue == sph[1]

\* S with d added to its diagonal components (positions xx, yy, zz)
DiagonalShifted(d) ==
    [k \in 1..6 |-> Num(IF k \in {1, 4, 6} THEN SymmComponent(k) + d ELSE SymmComponent(k))]

\* the component-wise negation of a tensor with integer components
Negated(t) == [k \in 1..6 |-> Num(-(t[k][1]))]

C19_MixedRankDiagonalExpansion ==
    tensor_out.st = "ok" =>
        /\ tensor_out.val.op = "SymmTensor + SphericalTensor" =>
              tensor_out.val.val = DiagonalShifted(SphValue)
        /\ tensor_out.val.op = "SphericalTensor + SymmTensor" =>
              tensor_out.val.val = DiagonalShifted(SphValue)
        /\ tensor_out.val.op = "SymmTensor - SphericalTensor" =>
              tensor_out.val.val = DiagonalShifted(-SphValue)
        /\ tensor_out.val.op = "SphericalTensor - SymmTensor" =>
              /\ tensor_out.val.val = Negated(DiagonalShifted(-SphValue))
              /\ tensor_out.val.val = SymmNeg(SymmSubSph(symm, sph))

\* Sph(s) - S with s and every component of S different from zero
C19_Witness ==
    /\ tensor_out.st = "ok"
    /\ tensor_out.val.op = "SphericalTensor - SymmTensor"
    /\ SphValue # 0
    /\ \A k \in 1..6 : SymmComponent(k) # 0
    /\ SymmComponent(1) # SymmComponent(4)
    /\ tensor_out.val.val = Negated(DiagonalShifted(-SphValue))

\* S + Sph(s) with off-diagonal components that differ from the diagonal ones
C19_WitnessAddition ==
    /\ tensor_out.st = "ok"
    /\ tensor_out.val.op = "SymmTensor + SphericalTensor"
    /\ SphValue # 0
    /\ SymmComponent(2) # 0
    /\ tensor_out.val.val[2] = symm[2]
    /\ tensor_out.val.val[1] # symm[1]

(***************************************************************************)
(* C20: a cell index c < n_cells that no face refers to (neither as owner  *)
(* nor as neighbor of an internal face) is handled without a division by   *)
(* zero: compute_cell_geometry reports volume 0 and the zero vector as     *)
(* centroid for it, and compute_cell_faces, compute_cell_cells and         *)
(* compute_cell_points (given the cell's empty face list) return empty     *)
(* lists for it.                                                           *)
(***************************************************************************)
Unreferenced(c) == BoundingFaces(c) = <<>>

C20_UnreferencedCell ==
    \A c \in Cells(n_cells) :
        Unreferenced(c) =>
            /\ cell_geom.st = "ok" =>
                  /\ cell_geom.val.cell_volumes[c + 1] = Zero
                  /\ cell_geom.val.cell_centers[c + 1] = VZero
            /\ cell_faces.st = "ok" => cell_faces.val[c + 1] = <<>>
            /\ cell_cells.st = "ok" => cell_cells.val[c + 1] = <<>>
            /\ cell_points.st = "ok" => cell_points.val[c + 1] = <<>>

\* the part of C20 the code keeps: the three topology derivations
C20_UnreferencedCellTopology ==
    \A c \in Cells(n_cells) :
        Unreferenced(c) =>
            /\ cell_faces.st # "none" => cell_faces.st = "ok" /\ cell_faces.val[c + 1] = <<>>
            /\ cell_cells.st # "none" => cell_cells.st = "ok" /\ cell_cells.val[c + 1] = <<>>
            /\ cell_points.st # "none" =>
                  cell_points.st = "ok" /\ cell_points.val[c + 1] = <<>>

\* and the geometry when neighbor has n_internal_faces entries
C20_HoldsWithoutNeighborTail ==
    \A c \in Cells(n_cells) :
        (Unreferenced(c) /\ Len(neighbor) = n_internal_faces /\ cell_geom.st # "none") =>
            /\ cell_geom.st = "ok"
            /\ cell_geom.val.cell_volumes[c + 1] = Zero
            /\ cell_geom.val.cell_centers[c + 1] = VZero

\* such a cell next to cells with faces
C20_UnreferencedCellReached ==
    /\ cell_geom.st = "ok"
    /\ cell_points.st = "ok"
    /\ Len(neighbor) = n_internal_faces
    /\ n_internal_faces = 1
    /\ \E c \in Cells(n_cells) : Unreferenced(c) /\ cell_geom.val.cell_volumes[c + 1] = Zero

(***************************************************************************)
(* C21: CellCells is consistent with CellFaces.  For the outputs of        *)
(* compute_cell_faces and compute_cell_cells on the same owner, neighbor,  *)
(* n_internal_faces and n_cells, and any two distinct cells A and B: B     *)
(* occurs in A's adjacent-cell list if and only if some face index occurs  *)
(* in both A's and B's face lists, and B occurs in A's list as many times  *)
(* as there are face indices common to both face lists; the output of      *)
(* compute_cell_cells does not depend on its cell_faces argument.          *)
(***************************************************************************)
\* the face indices that occur in the face lists of both cells
CommonFaces(a, b) == Range(cell_faces.val[a + 1]) \cap Range(cell_faces.val[b + 1])

\* values of the cell_faces argument: the CellFaces lists, the same lists
\* reversed, empty lists, and no list at all
CellFacesArguments ==
    {cell_faces.val,
     [k \in 1..Len(cell_faces.val) |->
         [i \in 1..Len(cell_faces.val[k]) |->
             cell_faces.val[k][Len(cell_faces.val[k]) + 1 - i]]],
     EmptyLists(n_cells),
     <<>>}

C21_CellCellsConsistentWithCellFaces ==
    /\ (cell_faces.st = "ok" /\ cell_cells.st = "ok") =>
          \A a, b \in Cells(n_cells) :
              a # b =>
                  /\ b \in Range(cell_cells.val[a + 1]) <=> CommonFaces(a, b) # {}
                  /\ Occurrences(b, cell_cells.val[a + 1])
                        = Cardinality(CommonFaces(a, b))
    /\ cell_cells.st # "none" =>
          \A cf \in CellFacesArguments :
              compute_cell_cells(cf, owner, neighbor, n_internal_faces, n_cells)
                 = cell_cells

\* two cells with two common faces, one in each direction, next to a
\* boundary face
C21_Witness ==
    /\ cell_faces.st = "ok"
    /\ cell_cells.st = "ok"
    /\ BoundaryFaces # {}
    /\ \E a, b \in Cells(n_cells) :
          /\ a # b
          /\ FacesFromTo(a, b) # {}
          /\ FacesFromTo(b, a) # {}
          /\ Cardinality(CommonFaces(a, b)) = 2
          /\ Occurrences(b, cell_cells.val[a + 1]) = 2

\* an internal face with the same cell on both sides: twice in that cell's
\* face list, in no other cell's
C21_WitnessSelfAdjacent ==
    /\ cell_faces.st = "ok"
    /\ cell_cells.st = "ok"
    /\ n_cells >= 2
    /\ \E a \in Cells(n_cells) : FacesFromTo(a, a) # {}
    /\ \E a, b \in Cells(n_cells) : a # b /\ CommonFaces(a, b) = {}
====
